---- MODULE Spec2Model ----
(***************************************************************************)
(* Model of src/src/logic.rs: the dense board with its wall halo, the      *)
(* search node and its transition functions, the voronoi territory         *)
(* estimator, the alpha-beta search and the get_move driver.               *)
(*                                                                         *)
(* The source compiles BOARD_SIZE = 11.  Every function of the source is   *)
(* written in terms of BOARD_SIZE only, so the model keeps the name and    *)
(* checks the same code on a smaller board; BOARD_SIZE is a bound of the   *)
(* model.  Agents are numbered from 0 as in the source; agent 0 is the     *)
(* controlled agent.                                                       *)
(***************************************************************************)
EXTENDS Integers, Sequences, FiniteSets, TLC

\* ------------------------------------------------------------------ bounds
BOARD_SIZE == 5          \* side of the interior (11 in the source)
MaxTurn == 1             \* snapshots are taken at turns 0..MaxTurn
MaxSnakes == 3           \* a snapshot lists 1..MaxSnakes agents
MaxBody == 3             \* the longest body of a snapshot
MaxSteps == 2            \* length of a free sequence of transitions
MaxDepth == 2            \* search depths 0..MaxDepth
FULL_HEALTH == 100       \* the largest health of a snapshot

\* The smallest health of a snapshot: one above the threshold of evaluate,
\* so that the first joint reply exhausts the agent.
LOW_HEALTH == 2 + 1

\* --------------------------------------------------------------- constants
PLAYER_COUNT == 2
MAGIC_NOT_OWNED == -1
I32_MAX == 2147483647
I32_MIN == -I32_MAX - 1
SEARCH_DEPTH == 2

Direction == {"Up", "Down", "Left", "Right"}

\* The order in which every loop of the source tries the directions.
DirectionOrder == <<"Up", "Down", "Left", "Right">>

Players == 0 .. (PLAYER_COUNT - 1)

Coord(x, y) == [x |-> x, y |-> y]

Max(a, b) == IF a >= b THEN a ELSE b
Min(a, b) == IF a <= b THEN a ELSE b

\* ------------------------------------------------------------- DenseBoard
DenseLen == (BOARD_SIZE + 2) * (BOARD_SIZE + 2)

\* DenseBoard::init
DenseInit(default) == [k \in 0 .. (DenseLen - 1) |-> default]

\* The index computed by get_xy and get_xy_mut.
DenseIndex(x, y) == (y + 1) * (BOARD_SIZE + 2) + (x + 1)

\* An index the array has; anything else aborts the program.
InRange(x, y) ==
  /\ x + 1 >= 0
  /\ y + 1 >= 0
  /\ DenseIndex(x, y) < DenseLen

get_xy(board, x, y) == board[DenseIndex(x, y)]

get_coord(board, c) == get_xy(board, c.x, c.y)

set_xy(board, x, y, v) == [board EXCEPT ![DenseIndex(x, y)] = v]

set_coord(board, c, v) == set_xy(board, c.x, c.y, v)

\* DenseBoard is Copy: clone yields an array with the same cells.  The
\* comparison makes the model checker build the array once, here, instead of
\* on every later read.
clone(board) == IF board = <<>> THEN board ELSE board

\* ------------------------------------------------------------------- Node
\* Node::new: lengths is filled with 0 whatever the bodies are.
NodeNew(turn, board, heads, our_health) ==
  [turn |-> turn,
   board |-> board,
   heads |-> heads,
   lengths |-> [i \in Players |-> 0],
   our_health |-> our_health]

\* is_head_colliding_wall with the lower tests strict: heads on row or column
\* 0 no longer count as colliding.
is_head_colliding_wall_strict(node, snake_idx) ==
  \/ node.heads[snake_idx].x < 0
  \/ node.heads[snake_idx].x >= BOARD_SIZE - 1
  \/ node.heads[snake_idx].y < 0
  \/ node.heads[snake_idx].y >= BOARD_SIZE - 1

\* is_head_colliding_wall with the upper tests strict: heads on row or column
\* BOARD_SIZE - 1 no longer count as colliding.
is_head_colliding_wall_upper(node, snake_idx) ==
  \/ node.heads[snake_idx].x <= 0
  \/ node.heads[snake_idx].x > BOARD_SIZE - 1
  \/ node.heads[snake_idx].y <= 0
  \/ node.heads[snake_idx].y > BOARD_SIZE - 1

is_head_colliding_wall(node, snake_idx) ==
  \/ node.heads[snake_idx].x <= 0
  \/ node.heads[snake_idx].x >= BOARD_SIZE - 1
  \/ node.heads[snake_idx].y <= 0
  \/ node.heads[snake_idx].y >= BOARD_SIZE - 1

\* StepCoord with the arm of Down a copy of the arm of Up.
StepCoord_copied(c, direction) ==
  CASE direction = "Up" -> Coord(c.x, c.y - 1)
    [] direction = "Down" -> Coord(c.x, c.y - 1)
    [] direction = "Left" -> Coord(c.x - 1, c.y)
    [] direction = "Right" -> Coord(c.x + 1, c.y)

\* The match of apply_move: the head one cell further in the direction.
StepCoord(c, direction) ==
  CASE direction = "Up" -> Coord(c.x, c.y - 1)
    [] direction = "Down" -> Coord(c.x, c.y + 1)
    [] direction = "Left" -> Coord(c.x - 1, c.y)
    [] direction = "Right" -> Coord(c.x + 1, c.y)

\* apply_move stamping the cell the head enters as well.
apply_move_marking(node, snake_idx, direction) ==
  IF is_head_colliding_wall(node, snake_idx)
  THEN node
  ELSE [node EXCEPT
          !.heads[snake_idx] = StepCoord(@, direction),
          !.board = clone(set_coord(set_coord(@, node.heads[snake_idx],
                                              node.lengths[snake_idx] + node.turn),
                                    StepCoord(node.heads[snake_idx], direction),
                                    I32_MAX))]

apply_move(node, snake_idx, direction) ==
  IF is_head_colliding_wall(node, snake_idx)
  THEN node
  ELSE [node EXCEPT
          !.heads[snake_idx] = StepCoord(@, direction),
          !.board = clone(set_coord(@, node.heads[snake_idx],
                                    node.lengths[snake_idx] + node.turn))]

\* The four neighbour reads of is_head_colliding_snake are discarded by the
\* source (the expression statement ends in a semicolon); only the head cell
\* decides.
is_head_colliding_snake(node, snake_idx) ==
  IF is_head_colliding_wall(node, snake_idx)
  THEN TRUE
  ELSE get_xy(node.board, node.heads[snake_idx].x, node.heads[snake_idx].y)
         > node.turn

\* The loop of apply_move_array: every iteration applies its move to self,
\* not to the node of the previous iteration.
RECURSIVE ApplyArrayLoop(_, _, _, _)
ApplyArrayLoop(self, node, i, directions) ==
  IF i >= PLAYER_COUNT
  THEN node
  ELSE ApplyArrayLoop(self, apply_move(self, i, directions[i]), i + 1,
                      directions)

\* apply_move_array that leaves turn and health alone when no head moved.
apply_move_array_idle(self, directions) ==
  LET node == ApplyArrayLoop(self, apply_move(self, 1, directions[1]), 2,
                             directions)
  IN IF node = self
     THEN node
     ELSE [node EXCEPT !.turn = @ + 1, !.our_health = @ - 1]

\* directions is the SmallVec of the source, written here as a sequence:
\* directions[k] of the source is directions[k + 1] here.
apply_move_array(self, directions) ==
  LET node == ApplyArrayLoop(self, apply_move(self, 1, directions[1]), 2,
                             directions)
  IN [node EXCEPT !.turn = @ + 1, !.our_health = @ - 1]

\* ---------------------------------------------------------------- voronoi
\* The cells visited by the two nested loops of a round.
Interior == {Coord(x, y) : x \in 0 .. (BOARD_SIZE - 1), y \in 0 .. (BOARD_SIZE - 1)}

\* The array `tests` of the source: the neighbours in the order scanned.
Tests(c) ==
  <<Coord(c.x - 1, c.y), Coord(c.x + 1, c.y),
    Coord(c.x, c.y - 1), Coord(c.x, c.y + 1)>>

\* The seeding loop: each head cell is owned by its agent; a later agent
\* overwrites an earlier one on the same cell.
RECURSIVE SeedHeads(_, _, _)
SeedHeads(owned_by, heads, i) ==
  IF i >= PLAYER_COUNT
  THEN owned_by
  ELSE SeedHeads(set_coord(owned_by, heads[i], i), heads, i + 1)

\* Claims without the test of the stamp: occupied cells are claimed too.
Claims_anywhere(node, owned_by, coord, test) ==
  /\ get_coord(owned_by, test) # MAGIC_NOT_OWNED
  /\ get_coord(owned_by, coord) = MAGIC_NOT_OWNED

\* The condition of the innermost `if`, read from owned_by, which does not
\* change during a round (the writes go to owned_by_new).
Claims(node, owned_by, coord, test) ==
  /\ get_coord(node.board, coord) - node.turn <= 0
  /\ get_coord(owned_by, test) # MAGIC_NOT_OWNED
  /\ get_coord(owned_by, coord) = MAGIC_NOT_OWNED

\* The owners written to owned_by_new[coord] in one round, in scan order:
\* one write, and one score increment, for every test that passes.
ClaimSeq(node, owned_by, coord) ==
  LET tests == Tests(coord)
      pass == SelectSeq(<<1, 2, 3, 4>>,
                        LAMBDA k : Claims(node, owned_by, coord, tests[k]))
  IN [k \in 1 .. Len(pass) |-> get_coord(owned_by, tests[pass[k]])]

\* RoundOwner keeping the first write instead of the last.
RoundOwner_first(owned_by, coord, claims) ==
  IF Len(claims) = 0 THEN get_coord(owned_by, coord) ELSE claims[1]

\* The owner owned_by_new[coord] holds after the round: every passing test
\* overwrites it, so the last one stays.
RoundOwner(owned_by, coord, claims) ==
  IF Len(claims) = 0 THEN get_coord(owned_by, coord) ELSE claims[Len(claims)]

\* The cell stored at index k of the array.
CoordOf(k) == Coord((k % (BOARD_SIZE + 2)) - 1, (k \div (BOARD_SIZE + 2)) - 1)

\* The indices of the cells the two nested loops of a round visit.
InteriorIndex ==
  {DenseIndex(x, y) : x \in 0 .. (BOARD_SIZE - 1), y \in 0 .. (BOARD_SIZE - 1)}

\* VoronoiRound that ends the loop after a round that claimed a single cell.
VoronoiRound_early(node, owned_by, voronoi_scores) ==
  LET claims == clone([k \in InteriorIndex |->
                         ClaimSeq(node, owned_by, CoordOf(k))])
      claimed == {k \in InteriorIndex : Len(claims[k]) > 0}
      gained(p) == Cardinality({ck \in claimed \X (1 .. 4) :
                                  /\ ck[2] <= Len(claims[ck[1]])
                                  /\ claims[ck[1]][ck[2]] = p})
  IN [owned_by |->
        clone([k \in 0 .. (DenseLen - 1) |->
                 IF k \in claimed
                 THEN RoundOwner(owned_by, CoordOf(k), claims[k])
                 ELSE owned_by[k]]),
      voronoi_scores |-> [p \in Players |-> voronoi_scores[p] + gained(p)],
      not_done |-> Cardinality(claimed) > 1]

\* One pass of the `while not_done` loop: the scan of every interior cell,
\* then owned_by = owned_by_new.
VoronoiRound(node, owned_by, voronoi_scores) ==
  LET claims == clone([k \in InteriorIndex |->
                         ClaimSeq(node, owned_by, CoordOf(k))])
      claimed == {k \in InteriorIndex : Len(claims[k]) > 0}
      gained(p) == Cardinality({ck \in claimed \X (1 .. 4) :
                                  /\ ck[2] <= Len(claims[ck[1]])
                                  /\ claims[ck[1]][ck[2]] = p})
  IN [owned_by |->
        clone([k \in 0 .. (DenseLen - 1) |->
                 IF k \in claimed
                 THEN RoundOwner(owned_by, CoordOf(k), claims[k])
                 ELSE owned_by[k]]),
      voronoi_scores |-> [p \in Players |-> voronoi_scores[p] + gained(p)],
      not_done |-> claimed # {}]

\* The state of voronoi before the first round.
VoronoiStart(node) ==
  [owned_by |-> SeedHeads(DenseInit(MAGIC_NOT_OWNED), node.heads, 0),
   voronoi_scores |-> [p \in Players |-> 0],
   not_done |-> TRUE]

RECURSIVE VoronoiLoop(_, _)
VoronoiLoop(node, st) ==
  IF st.not_done
  THEN VoronoiLoop(node, VoronoiRound(node, st.owned_by, st.voronoi_scores))
  ELSE st

voronoi(node) == VoronoiLoop(node, VoronoiStart(node)).voronoi_scores

\* --------------------------------------------------------------- evaluate
RECURSIVE SumScores(_, _)
SumScores(scores, i) ==
  IF i >= PLAYER_COUNT THEN 0 ELSE scores[i] + SumScores(scores, i + 1)

\* evaluate with the turn left out of the loss score.
evaluate_flat(node) ==
  IF \/ is_head_colliding_wall(node, 0)
     \/ is_head_colliding_snake(node, 0)
     \/ node.our_health <= 2
  THEN -1000000000
  ELSE LET scores == voronoi(node)
       IN 2 * scores[0] - SumScores(scores, 0)

\* evaluate with the sign of the loss score lost.
evaluate_positive(node) ==
  IF \/ is_head_colliding_wall(node, 0)
     \/ is_head_colliding_snake(node, 0)
     \/ node.our_health <= 2
  THEN 1000000000 + node.turn
  ELSE LET scores == voronoi(node)
       IN 2 * scores[0] - SumScores(scores, 0)

\* The source calls voronoi(&self) twice in the territory branch; voronoi is
\* a pure function of the node, so the model computes it once.
evaluate(node) ==
  IF \/ is_head_colliding_wall(node, 0)
     \/ is_head_colliding_snake(node, 0)
     \/ node.our_health <= 2
  THEN -1000000000 + node.turn
  ELSE LET scores == voronoi(node)
       IN 2 * scores[0] - SumScores(scores, 0)

\* -------------------------------------------------------------- alphabeta
\* enemy_turns: the joint replies of agents 1 .. heads.len() - 1, built by
\* appending each of the four moves to each reply of the agents before.
RECURSIVE EnemyTurns(_)
EnemyTurns(n) ==
  IF n = 0
  THEN <<(<<>>)>>
  ELSE LET prev == EnemyTurns(n - 1)
       IN [k \in 1 .. (4 * Len(prev)) |->
             Append(prev[((k - 1) \div 4) + 1], DirectionOrder[((k - 1) % 4) + 1])]

\* The node the maximising branch recurses into for its k-th direction.
MaxChild(node, k) == apply_move(node, 0, DirectionOrder[k])

\* The node the minimising branch recurses into for its k-th joint reply.
MinChild(node, enemy_turns, k) == apply_move_array(node, enemy_turns[k])

\* BetaCut with the comparison turned round.
BetaCut_reversed(value, beta) == value <= beta

\* The test that ends the loop of the maximising branch.
BetaCut(value, beta) == value >= beta

\* The test that ends the loop of the minimising branch.
AlphaCut(value, alpha) == value <= alpha

RECURSIVE alphabeta(_, _, _, _, _)
RECURSIVE MaxLoop(_, _, _, _, _, _)
RECURSIVE MinLoop(_, _, _, _, _, _, _)

\* The loop of the maximising branch from its k-th direction on.
MaxLoop(node, depth, alpha, beta, value, k) ==
  IF k > 4
  THEN value
  ELSE LET v == Max(value, alphabeta(MaxChild(node, k), depth - 1, alpha, beta, FALSE))
       IN IF BetaCut(v, beta)
          THEN v
          ELSE MaxLoop(node, depth, Max(alpha, v), beta, v, k + 1)

\* The loop of the minimising branch from its k-th joint reply on.
MinLoop(node, depth, alpha, beta, value, enemy_turns, k) ==
  IF k > Len(enemy_turns)
  THEN value
  ELSE LET v == Min(value, alphabeta(MinChild(node, enemy_turns, k), depth - 1,
                                     alpha, beta, TRUE))
       IN IF AlphaCut(v, alpha)
          THEN v
          ELSE MinLoop(node, depth, alpha, Min(beta, v), v, enemy_turns, k + 1)

alphabeta(node, depth, alpha, beta, maximising_player) ==
  IF depth = 0
  THEN evaluate(node)
  ELSE IF maximising_player
       THEN MaxLoop(node, depth, alpha, beta, -10000, 1)
       ELSE MinLoop(node, depth, alpha, beta, 10000,
                    EnemyTurns(PLAYER_COUNT - 1), 1)

\* --------------------------------------------------------------- get_move
\* StampBody counting the segments from 1: segment i is stamped
\* turn + body.len() - i - 1.
RECURSIVE StampBody_short(_, _, _, _)
StampBody_short(board, body, turn, i) ==
  IF i >= Len(body)
  THEN board
  ELSE StampBody_short(set_coord(board, body[i + 1], turn + Len(body) - i - 1),
                       body, turn, i + 1)

\* A snapshot is what get_move reads of its arguments:
\*   turn    *turn
\*   health  you.health
\*   snakes  _board.snakes, each one its body, head first
\* The inner loop of the board construction: segment i of the body (counted
\* from 0) is stamped turn + body.len() - i.
RECURSIVE StampBody(_, _, _, _)
StampBody(board, body, turn, i) ==
  IF i >= Len(body)
  THEN board
  ELSE StampBody(set_coord(board, body[i + 1], turn + Len(body) - i),
                 body, turn, i + 1)

\* The outer loop from snake s (counted from 0) on.  heads has PLAYER_COUNT
\* entries, so heads[s] = ... aborts for s >= PLAYER_COUNT, and so does
\* snake.body[0] for an empty body.
RECURSIVE BuildSnakes(_, _, _, _, _)
BuildSnakes(board, heads, snakes, turn, s) ==
  IF s >= Len(snakes)
  THEN [board |-> board, heads |-> heads, panic |-> FALSE]
  ELSE LET body == snakes[s + 1]
           stamped == StampBody(board, body, turn, 0)
       IN IF Len(body) = 0 \/ s >= PLAYER_COUNT
          THEN [board |-> stamped, heads |-> heads, panic |-> TRUE]
          ELSE BuildSnakes(set_coord(stamped, body[1], 0),
                           [heads EXCEPT ![s] = body[1]],
                           snakes, turn, s + 1)

\* "create walls": the two loops stamp every cell with x or y equal to -1 or
\* BOARD_SIZE.
IsWallRing(c) ==
  \/ c.x = -1
  \/ c.x = BOARD_SIZE
  \/ c.y = -1
  \/ c.y = BOARD_SIZE

CreateWalls(board) ==
  [k \in 0 .. (DenseLen - 1) |-> IF IsWallRing(CoordOf(k)) THEN I32_MAX ELSE board[k]]

\* The root node of get_move, or the fact that building it aborted.
BuildRoot(snap) ==
  LET built == BuildSnakes(DenseInit(0), [i \in Players |-> Coord(0, 0)],
                           snap.snakes, snap.turn, 0)
  IN [panic |-> built.panic,
      node |-> NodeNew(snap.turn, CreateWalls(built.board), built.heads,
                       snap.health)]

\* The call get_move makes for each direction it scores.
RootScore(node, direction) ==
  alphabeta(apply_move(node, 0, direction), SEARCH_DEPTH, I32_MIN, I32_MAX, FALSE)

\* The directions of the `for` loop of get_move, after Up has been scored.
LoopOrder == <<"Down", "Left", "Right", "Up">>

\* Better with >= for >: a later direction takes over on a tie.
Better_or_equal(score, best_score) == score >= best_score

\* The test that replaces best_move.
Better(score, best_score) == score > best_score

\* ================================================================= state
VARIABLES
  snapshot,    \* the arguments of the get_move call (turn, health, snakes)
  pc,          \* the step the program is at
  node,        \* the Node at hand
  history,     \* the transitions applied to the root so far, oldest first
  best_move,   \* get_move: best_move
  best_score,  \* get_move: best_score
  tried,       \* get_move: the directions scored so far, with their scores
  result,      \* get_move: the value returned
  frame,       \* alphabeta: depth, maximising_player, alpha, beta, value and
               \* the position k of the loop, for the call at hand
  hit,         \* whether a move of agent 0 on the path to node entered an
               \* occupied cell
  vor,         \* voronoi: owned_by, voronoi_scores, not_done
  rounds,      \* voronoi: passes of the while loop made so far
  value        \* the value returned by the evaluate or alphabeta call made

vars == <<snapshot, pc, node, history, best_move, best_score, tried, result,
          frame, hit, vor, rounds, value>>

driverVars == <<best_move, best_score, tried, result>>
searchVars == <<frame, hit>>
voronoiVars == <<vor, rounds>>

None == "None"

\* --------------------------------------------------------------- snapshots
Inner == {c \in Interior : /\ c.x >= 1 /\ c.x <= BOARD_SIZE - 2
                           /\ c.y >= 1 /\ c.y <= BOARD_SIZE - 2}

\* A body of len segments laid out in a straight line from the head, the
\* tail end lying in direction d of the head.
Straight(head, d, len) ==
  [i \in 1 .. len |->
     CASE d = "Up" -> Coord(head.x, head.y - (i - 1))
       [] d = "Down" -> Coord(head.x, head.y + (i - 1))
       [] d = "Left" -> Coord(head.x - (i - 1), head.y)
       [] d = "Right" -> Coord(head.x + (i - 1), head.y)]

InInterior(body) == \A i \in 1 .. Len(body) : body[i] \in Interior

BareBodies == {Straight(h, "Up", 1) : h \in Interior}

LongBodies ==
  {b \in {Straight(h, d, MaxBody) : h \in Interior, d \in Direction} :
     InInterior(b)}

MirrorX(c) == Coord(BOARD_SIZE - 1 - c.x, c.y)
MirrorY(c) == Coord(c.x, BOARD_SIZE - 1 - c.y)

Snap(turn, health, snakes) ==
  [turn |-> turn, health |-> health, snakes |-> snakes]

\* One agent, the head alone, anywhere in the interior.
SingleBare ==
  {Snap(t, FULL_HEALTH, <<b>>) : t \in 0 .. MaxTurn, b \in BareBodies}

\* One agent with a body of MaxBody segments.
SingleLong == {Snap(0, FULL_HEALTH, <<b>>) : b \in LongBodies}

\* Two agents, heads alone, at positions that mirror each other across the
\* vertical or the horizontal centre line of the board.
MirroredPairs ==
  {p \in {<<h, MirrorX(h)>> : h \in Interior} \cup {<<h, MirrorY(h)>> : h \in Interior} :
     p[1] # p[2]}

Mirrored ==
  {Snap(0, FULL_HEALTH, <<Straight(p[1], "Up", 1), Straight(p[2], "Up", 1)>>) :
     p \in MirroredPairs}

\* One agent one ply away from exhaustion.
Starving == {Snap(0, LOW_HEALTH, <<b>>) : b \in BareBodies}

\* More agents than PLAYER_COUNT.
Crowded ==
  {Snap(0, FULL_HEALTH, [s \in 1 .. n |-> b]) :
     n \in (PLAYER_COUNT + 1) .. MaxSnakes, b \in BareBodies}

NoFrame == [depth |-> 0, maximising_player |-> FALSE, alpha |-> 0, beta |-> 0,
            value |-> 0, k |-> 0]

NoVoronoi == [owned_by |-> <<>>, voronoi_scores |-> <<>>, not_done |-> FALSE]

\* The values of the variables a specification does not use.
Idle ==
  /\ history = <<>>
  /\ best_move = None
  /\ best_score = 0
  /\ tried = <<>>
  /\ result = None
  /\ frame = NoFrame
  /\ hit = FALSE
  /\ vor = NoVoronoi
  /\ rounds = 0
  /\ value = None

\* ============================================= SpecOps: the transitions
\* Any sequence of at most MaxSteps calls of apply_move and apply_move_array,
\* each on the node the call before returned, from the root of a snapshot.
OpsSnapshots == SingleBare \cup SingleLong \cup Mirrored

InitOps ==
  /\ snapshot \in OpsSnapshots
  /\ node = BuildRoot(snapshot).node
  /\ pc = "node"
  /\ Idle

ApplyMove(snake_idx, direction) ==
  /\ pc = "node"
  /\ Len(history) < MaxSteps
  /\ node' = apply_move(node, snake_idx, direction)
  /\ history' = Append(history, [op |-> "apply_move", snake_idx |-> snake_idx,
                                 directions |-> <<direction>>, before |-> node])
  /\ UNCHANGED <<snapshot, pc, driverVars, searchVars, voronoiVars, value>>

ApplyMoveArray(directions) ==
  /\ pc = "node"
  /\ Len(history) < MaxSteps
  /\ node' = apply_move_array(node, directions)
  /\ history' = Append(history, [op |-> "apply_move_array", snake_idx |-> 1,
                                 directions |-> directions, before |-> node])
  /\ UNCHANGED <<snapshot, pc, driverVars, searchVars, voronoiVars, value>>

JointReplies == {EnemyTurns(PLAYER_COUNT - 1)[k] : k \in 1 .. Len(EnemyTurns(PLAYER_COUNT - 1))}

NextOps ==
  \/ \E i \in Players, d \in Direction : ApplyMove(i, d)
  \/ \E ds \in JointReplies : ApplyMoveArray(ds)

SpecOps == InitOps /\ [][NextOps]_vars

\* The node after the k-th transition of the history.
After(k) == IF k = Len(history) THEN node ELSE history[k + 1].before

Opposite(d) ==
  CASE d = "Up" -> "Down"
    [] d = "Down" -> "Up"
    [] d = "Left" -> "Right"
    [] d = "Right" -> "Left"

\* Transitions k and k + 1 are apply_move of one agent in opposite directions.
IsRoundTrip(k) ==
  /\ k + 1 <= Len(history)
  /\ history[k].op = "apply_move"
  /\ history[k + 1].op = "apply_move"
  /\ history[k].snake_idx = history[k + 1].snake_idx
  /\ history[k + 1].directions[1] = Opposite(history[k].directions[1])

\* Everything but the occupancy stamps is as in the node before.
SameButBoard(a, b) ==
  /\ a.turn = b.turn
  /\ a.our_health = b.our_health
  /\ a.lengths = b.lengths
  /\ a.heads = b.heads

\* C8 as stated: a move followed by the opposite move returns the head to its
\* coordinate, from every head position of the interior and in every
\* direction, and changes nothing but occupancy stamps.
C8_RoundTripEverywhere ==
  \A k \in 1 .. Len(history) :
    IsRoundTrip(k) => SameButBoard(After(k + 1), history[k].before)

\* C8 amended: the round trip returns the head to its coordinate when the
\* head starts with both coordinates in 1 .. BOARD_SIZE - 2 and the cell the
\* first move enters has both coordinates in 1 .. BOARD_SIZE - 2 too, and
\* changes nothing but occupancy stamps; when the head starts there and the
\* first move enters a cell of the boundary ring, the second move is a no-op
\* and the head stays on the ring.
C8_RoundTripInside ==
  \A k \in 1 .. Len(history) :
    IsRoundTrip(k) =>
      LET start == history[k].before
          i == history[k].snake_idx
          target == StepCoord(start.heads[i], history[k].directions[1])
      IN /\ (start.heads[i] \in Inner /\ target \in Inner)
              => SameButBoard(After(k + 1), start)
         /\ (start.heads[i] \in Inner /\ target \notin Inner)
              => After(k + 1).heads[i] = target

C8_Witness ==
  \E k \in 1 .. Len(history) :
    /\ IsRoundTrip(k)
    /\ history[k].before.heads[history[k].snake_idx] \in Inner
    /\ After(k).heads[history[k].snake_idx] \in Inner
    /\ After(k).heads[history[k].snake_idx]
         # history[k].before.heads[history[k].snake_idx]
    /\ After(k + 1).heads = history[k].before.heads
    /\ After(k + 1).board # history[k].before.board

\* C9: in every node reached from a root whose heads lie in the interior,
\* every head lies in [0, BOARD_SIZE - 1] x [0, BOARD_SIZE - 1], so the head
\* cell and its four neighbours are cells of the array.
C9_HeadsInside ==
  \A i \in Players :
    /\ node.heads[i] \in Interior
    /\ \A k \in 1 .. 4 :
         InRange(Tests(node.heads[i])[k].x, Tests(node.heads[i])[k].y)

\* A head that a move has put on the boundary ring, with a further move of
\* the same agent applied to it.
C9_Witness ==
  /\ Len(history) = 2
  /\ history[1].op = "apply_move"
  /\ history[2].op = "apply_move"
  /\ history[1].snake_idx = history[2].snake_idx
  /\ history[1].before.heads[history[1].snake_idx] \in Inner
  /\ history[2].before.heads[history[1].snake_idx] \notin Inner
  /\ node.heads[history[1].snake_idx].x = 0

\* A coordinate on the outermost ring of the interior, or outside it.
RingOrOutside(c) ==
  \/ c.x = 0 \/ c.x = BOARD_SIZE - 1 \/ c.x < 0 \/ c.x > BOARD_SIZE - 1
  \/ c.y = 0 \/ c.y = BOARD_SIZE - 1 \/ c.y < 0 \/ c.y > BOARD_SIZE - 1

\* C11: is_head_colliding_wall(i) is true exactly when the head of agent i
\* has x or y equal to 0 or BOARD_SIZE - 1 (or outside 0 .. BOARD_SIZE - 1),
\* and false when both coordinates are in 1 .. BOARD_SIZE - 2.
C11_WallIffRing ==
  \A i \in Players :
    /\ is_head_colliding_wall(node, i) <=> RingOrOutside(node.heads[i])
    /\ (/\ node.heads[i].x \in 1 .. (BOARD_SIZE - 2)
        /\ node.heads[i].y \in 1 .. (BOARD_SIZE - 2))
         => ~ is_head_colliding_wall(node, i)

\* A move has taken the head of agent 0 from a cell off the ring onto the
\* edge x = 0, and the head of agent 1 is off the ring.
C11_Witness ==
  /\ Len(history) = 1
  /\ history[1].op = "apply_move"
  /\ history[1].snake_idx = 0
  /\ ~ is_head_colliding_wall(history[1].before, 0)
  /\ node.heads[0].x = 0
  /\ node.heads[0].y \in 1 .. (BOARD_SIZE - 2)
  /\ node.heads[1].x \in 1 .. (BOARD_SIZE - 2)
  /\ node.heads[1].y \in 1 .. (BOARD_SIZE - 2)
  /\ is_head_colliding_wall(node, 0)
  /\ ~ is_head_colliding_wall(node, 1)

\* Transition k is an apply_move that moved the head of its agent.
Moved(k) ==
  /\ history[k].op = "apply_move"
  /\ After(k).heads[history[k].snake_idx]
       # history[k].before.heads[history[k].snake_idx]

\* The length of the body of agent i in the snapshot (0 when the snapshot
\* has no such agent).
BodyLength(i) ==
  IF i + 1 <= Len(snapshot.snakes) THEN Len(snapshot.snakes[i + 1]) ELSE 0

\* C12 as stated: lengths[i] is the length of the body of agent i in the
\* snapshot, and the cell a head leaves in a node of turn t is stamped with
\* that length plus t, so that it is occupied in the node the move returns.
C12_VacatedCellStaysOccupied ==
  \A k \in 1 .. Len(history) :
    (Moved(k) /\ BodyLength(history[k].snake_idx) >= 1) =>
      LET start == history[k].before
          i == history[k].snake_idx
      IN /\ start.lengths[i] = BodyLength(i)
         /\ get_coord(After(k).board, start.heads[i]) = BodyLength(i) + start.turn
         /\ get_coord(After(k).board, start.heads[i]) > After(k).turn

\* C13 as stated: the cell a head has moved into is occupied in the node the
\* move returns.
C13_EnteredCellOccupied ==
  \A k \in 1 .. Len(history) :
    Moved(k) =>
      get_coord(After(k).board, After(k).heads[history[k].snake_idx])
        > After(k).turn

\* apply_move for every agent from i on, each on the node the one before
\* returned.
RECURSIVE MoveOpponents(_, _, _)
MoveOpponents(n, directions, i) ==
  IF i >= PLAYER_COUNT
  THEN n
  ELSE MoveOpponents(apply_move(n, i, directions[i]), directions, i + 1)

\* C15: apply_move_array returns the node that apply_move for every agent
\* 1 .. PLAYER_COUNT - 1 in turn makes of its node, with turn + 1 and
\* our_health - 1; the head of agent 0 stays, and turn and health advance
\* also when no head moved.
C15_ArrayIsEveryOpponent ==
  \A k \in 1 .. Len(history) :
    history[k].op = "apply_move_array" =>
      LET start == history[k].before
          moved == MoveOpponents(start, history[k].directions, 1)
      IN /\ After(k) = [moved EXCEPT !.turn = start.turn + 1,
                                     !.our_health = start.our_health - 1]
         /\ After(k).heads[0] = start.heads[0]
         /\ After(k).turn = start.turn + 1
         /\ After(k).our_health = start.our_health - 1

\* Two joint replies in a row: the first moves the head of agent 1 onto the
\* ring, the second moves nothing and still advances turn and health.
C15_Witness ==
  /\ Len(history) = 2
  /\ history[1].op = "apply_move_array"
  /\ history[2].op = "apply_move_array"
  /\ history[2].before.heads[1] # history[1].before.heads[1]
  /\ node.heads = history[2].before.heads
  /\ node.board = history[2].before.board
  /\ node.turn = history[1].before.turn + 2
  /\ node.our_health = history[1].before.our_health - 2

\* C16: apply_move leaves turn, our_health, lengths and the heads of the
\* other agents alone and changes no cell of the board but the one its
\* agent's head leaves; with the head on the boundary ring it returns its
\* node unchanged.
C16_MoveFrame ==
  \A k \in 1 .. Len(history) :
    history[k].op = "apply_move" =>
      LET start == history[k].before
          i == history[k].snake_idx
      IN /\ After(k).turn = start.turn
         /\ After(k).our_health = start.our_health
         /\ After(k).lengths = start.lengths
         /\ \A j \in Players \ {i} : After(k).heads[j] = start.heads[j]
         /\ \A idx \in 0 .. (DenseLen - 1) :
              After(k).board[idx] # start.board[idx]
                => idx = DenseIndex(start.heads[i].x, start.heads[i].y)
         /\ RingOrOutside(start.heads[i]) => After(k) = start

\* A move that changes the stamp of the cell it leaves and puts the head on
\* the ring, and then a move of the same agent that changes nothing.
C16_Witness ==
  /\ Len(history) = 2
  /\ history[1].op = "apply_move"
  /\ history[2].op = "apply_move"
  /\ history[1].snake_idx = history[2].snake_idx
  /\ history[2].before.board # history[1].before.board
  /\ history[2].before.heads # history[1].before.heads
  /\ RingOrOutside(history[2].before.heads[history[2].snake_idx])
  /\ node = history[2].before

\* ================================================= Spec: the get_move call
\* get_move from its call to its return, one step per statement group: the
\* construction of the root node, the score of Up, one pass of the for loop
\* per direction, and the return.
MoveSnapshots == SingleBare \cup SingleLong \cup Mirrored \cup Starving \cup Crowded

Init ==
  /\ snapshot \in MoveSnapshots
  /\ node = None
  /\ pc = "build"
  /\ Idle

\* Lines 292-323.  An abort (a panic of the Rust program) ends the call.
Build ==
  /\ pc = "build"
  /\ LET root == BuildRoot(snapshot)
     IN IF root.panic
        THEN /\ pc' = "panic"
             /\ node' = node
        ELSE /\ pc' = "first"
             /\ node' = root.node
  /\ UNCHANGED <<snapshot, history, driverVars, searchVars, voronoiVars, value>>

\* Lines 325-326.
ScoreFirst ==
  /\ pc = "first"
  /\ LET score == RootScore(node, "Up")
     IN /\ best_move' = "Up"
        /\ best_score' = score
        /\ tried' = <<[direction |-> "Up", score |-> score]>>
  /\ pc' = "loop"
  /\ UNCHANGED <<snapshot, node, history, result, searchVars, voronoiVars, value>>

\* Lines 329-341: the pass of the loop for LoopOrder[Len(tried)].
ScoreNext ==
  /\ pc = "loop"
  /\ Len(tried) <= Len(LoopOrder)
  /\ LET direction == LoopOrder[Len(tried)]
         score == RootScore(node, direction)
     IN /\ tried' = Append(tried, [direction |-> direction, score |-> score])
        /\ IF Better(score, best_score)
           THEN /\ best_score' = score
                /\ best_move' = direction
           ELSE UNCHANGED <<best_score, best_move>>
  /\ UNCHANGED <<snapshot, pc, node, history, result, searchVars, voronoiVars, value>>

\* Line 350.
Return ==
  /\ pc = "loop"
  /\ Len(tried) > Len(LoopOrder)
  /\ result' = [some |-> best_move]
  /\ pc' = "done"
  /\ UNCHANGED <<snapshot, node, history, best_move, best_score, tried,
                 searchVars, voronoiVars, value>>

Next ==
  \/ Build
  \/ ScoreFirst
  \/ ScoreNext
  \/ Return

Spec == Init /\ [][Next]_vars

\* C1 as stated: get_move never aborts, and what it returns is Some(d) with d
\* one of the four directions, for any number of agents in the snapshot.
C1_AlwaysReturns ==
  /\ pc # "panic"
  /\ pc = "done" => result \in {[some |-> d] : d \in Direction}

\* The head of the controlled agent in the snapshot.
SnapshotHead == snapshot.snakes[1][1]

\* The position in DirectionOrder of a direction.
OrderOf(d) == CHOOSE k \in 1 .. 4 : DirectionOrder[k] = d

\* The score get_move computed for a direction.
ScoreOf(d) == tried[CHOOSE k \in 1 .. Len(tried) : tried[k].direction = d].score

\* C3: with a single agent at full health whose head has both coordinates in
\* 1 .. BOARD_SIZE - 2, get_move does not return a direction whose target
\* cell is on the boundary ring when another direction's target cell is not.
C3_AvoidsRing ==
  (/\ pc = "done"
   /\ Len(snapshot.snakes) = 1
   /\ snapshot.health = FULL_HEALTH
   /\ SnapshotHead \in Inner)
  => ~ (/\ StepCoord(SnapshotHead, result.some) \notin Inner
        /\ \E d \in Direction : StepCoord(SnapshotHead, d) \in Inner)

\* The first direction tried enters the ring, and another one is returned.
C3_Witness ==
  /\ pc = "done"
  /\ Len(snapshot.snakes) = 1
  /\ Len(snapshot.snakes[1]) = 1
  /\ snapshot.health = FULL_HEALTH
  /\ SnapshotHead \in Inner
  /\ StepCoord(SnapshotHead, "Up") \notin Inner
  /\ StepCoord(SnapshotHead, result.some) \in Inner

\* C10: get_move returns a direction whose score is the maximum of the
\* scores of the four directions, and the first such direction in the order
\* Up, Down, Left, Right.
C10_FirstBest ==
  pc = "done" =>
    /\ best_score = ScoreOf(result.some)
    /\ \A k \in 1 .. Len(tried) : tried[k].score <= ScoreOf(result.some)
    /\ \A d \in Direction :
         OrderOf(d) < OrderOf(result.some) => ScoreOf(d) < ScoreOf(result.some)

\* A tie for the best score between the direction returned and a later one,
\* the direction returned not being the default.
C10_Witness ==
  /\ pc = "done"
  /\ result.some # "Up"
  /\ \E d \in Direction :
       /\ OrderOf(d) > OrderOf(result.some)
       /\ ScoreOf(d) = ScoreOf(result.some)

\* ================================= SpecBuild: the construction of the root
\* Lines 292-323 of get_move alone, on snapshots of one or two agents at
\* turns 0 .. MaxTurn: bare heads, straight bodies, bodies whose segments all
\* lie on one cell (the bodies of the first turn of a game), and pairs of
\* straight bodies that mirror each other.
Stacked(head, len) == [i \in 1 .. len |-> head]

StackedBodies == {Stacked(h, MaxBody) : h \in Interior}

MirrorBody(body) == [i \in 1 .. Len(body) |-> MirrorX(body[i])]

LongPairs ==
  {<<b, MirrorBody(b)>> : b \in {c \in LongBodies : c[1].x < MirrorX(c[1]).x}}

BuildSnapshots ==
  {Snap(t, FULL_HEALTH, <<b>>) :
     t \in 0 .. MaxTurn, b \in BareBodies \cup LongBodies \cup StackedBodies}
  \cup {Snap(t, FULL_HEALTH, p) : t \in 0 .. MaxTurn, p \in LongPairs}
  \cup Mirrored

InitBuild ==
  /\ snapshot \in BuildSnapshots
  /\ node = None
  /\ pc = "build"
  /\ Idle

NextBuild == Build

SpecBuild == InitBuild /\ [][NextBuild]_vars

\* The segments of the snapshot: agent s (from 0), offset i from the head.
Segments ==
  {si \in (0 .. (Len(snapshot.snakes) - 1)) \X (0 .. (MaxBody - 1)) :
     si[2] < Len(snapshot.snakes[si[1] + 1])}

SegmentCell(si) == snapshot.snakes[si[1] + 1][si[2] + 1]

HeadCells == {SegmentCell(si) : si \in {sj \in Segments : sj[2] = 0}}

BodyCells == {SegmentCell(si) : si \in Segments}

\* No two segments of the snapshot lie on one cell.
DistinctSegments ==
  \A si, sj \in Segments : si # sj => SegmentCell(si) # SegmentCell(sj)

\* What the root holds off the heads: the stamp of every segment behind a
\* head, the sentinel on the wall ring, and free cells elsewhere.
StampsBehindHeads ==
  /\ \A si \in Segments :
       si[2] >= 1 =>
         /\ get_coord(node.board, SegmentCell(si))
              = snapshot.turn + Len(snapshot.snakes[si[1] + 1]) - si[2]
         /\ get_coord(node.board, SegmentCell(si)) > node.turn
  /\ \A k \in 0 .. (DenseLen - 1) :
       /\ IsWallRing(CoordOf(k)) => node.board[k] = I32_MAX
       /\ (~ IsWallRing(CoordOf(k)) /\ CoordOf(k) \notin BodyCells)
            => node.board[k] <= node.turn

\* C17 as stated: in the root built from a snapshot at turn t, the segment at
\* offset i >= 1 of a body of length L holds t + L - i and is occupied, every
\* head cell holds t and is not occupied, every wall-ring cell holds
\* i32::MAX, and every other cell is free.
C17_RootStamps ==
  pc = "first" =>
    /\ StampsBehindHeads
    /\ \A c \in HeadCells :
         /\ get_coord(node.board, c) = snapshot.turn
         /\ ~ (get_coord(node.board, c) > node.turn)

\* C17 amended: when no two segments of the snapshot lie on one cell, the
\* segment at offset i >= 1 of a body of length L holds t + L - i and is
\* occupied, every head cell holds 0, whatever t is, and is not occupied,
\* every wall-ring cell holds i32::MAX, and every other cell is free.
C17_RootStampsHeadZero ==
  (pc = "first" /\ DistinctSegments) =>
    /\ StampsBehindHeads
    /\ \A c \in HeadCells :
         /\ get_coord(node.board, c) = 0
         /\ ~ (get_coord(node.board, c) > node.turn)

\* The root of a snapshot of two bodies of MaxBody segments taken after
\* turn 0.
C17_Witness ==
  /\ pc = "first"
  /\ DistinctSegments
  /\ snapshot.turn >= 1
  /\ Len(snapshot.snakes) = PLAYER_COUNT
  /\ \A s \in 1 .. Len(snapshot.snakes) : Len(snapshot.snakes[s]) = MaxBody
  /\ get_coord(node.board, node.heads[0]) = 0
  /\ get_coord(node.board, snapshot.snakes[2][MaxBody]) = snapshot.turn + 1

\* ============================== SpecSearch: one path of the search at a time
\* The search get_move starts, followed down one path: the frame is the call
\* of alphabeta at hand.  A child of the call is either stepped over (its
\* value comes from alphabeta, and the loop goes on or is cut as in the
\* source) or stepped into (the child's call becomes the frame), so the
\* frames reached are exactly the calls the search makes.
SearchSnapshots ==
  {s \in SingleBare \cup SingleLong : s.turn = 0 /\ s.snakes[1][1] \in Inner}

InitSearch ==
  /\ snapshot \in SearchSnapshots
  /\ node = BuildRoot(snapshot).node
  /\ pc = "root"
  /\ Idle

\* The frame of a call alphabeta(_, depth, alpha, beta, maximising_player)
\* before the first pass of its loop.
NewFrame(depth, alpha, beta, maximising_player) ==
  [depth |-> depth, maximising_player |-> maximising_player,
   alpha |-> alpha, beta |-> beta,
   value |-> IF maximising_player THEN -10000 ELSE 10000,
   k |-> 1]

\* apply_move of agent 0 in direction d moves the head, and the cell entered
\* is occupied in the node the move is applied to.
Enters(n, d) ==
  /\ ~ is_head_colliding_wall(n, 0)
  /\ get_coord(n.board, StepCoord(n.heads[0], d)) > n.turn

\* The children of the frame's call, in the order of its loop.
ChildCount == IF frame.maximising_player THEN 4 ELSE Len(EnemyTurns(PLAYER_COUNT - 1))

Child(k) ==
  IF frame.maximising_player
  THEN MaxChild(node, k)
  ELSE MinChild(node, EnemyTurns(PLAYER_COUNT - 1), k)

\* Lines 326 and 335: the move of the root, and the call of alphabeta on it.
RootMove(d) ==
  /\ pc = "root"
  /\ node' = apply_move(node, 0, d)
  /\ frame' = NewFrame(SEARCH_DEPTH, I32_MIN, I32_MAX, FALSE)
  /\ hit' = Enters(node, d)
  /\ pc' = "loop"
  /\ UNCHANGED <<snapshot, history, driverVars, voronoiVars, value>>

\* Lines 220-222.
Leaf ==
  /\ pc = "loop"
  /\ frame.depth = 0
  /\ value' = evaluate(node)
  /\ pc' = "returned"
  /\ UNCHANGED <<snapshot, node, history, driverVars, searchVars, voronoiVars>>

\* One pass of the loop (lines 233-238 or 265-270), the recursive call taken
\* as a whole.
StepOver ==
  /\ pc = "loop"
  /\ frame.depth > 0
  /\ frame.k <= ChildCount
  /\ LET below == alphabeta(Child(frame.k), frame.depth - 1, frame.alpha,
                            frame.beta, ~ frame.maximising_player)
         v == IF frame.maximising_player
              THEN Max(frame.value, below)
              ELSE Min(frame.value, below)
         cut == IF frame.maximising_player
                THEN BetaCut(v, frame.beta)
                ELSE AlphaCut(v, frame.alpha)
     IN IF cut
        THEN /\ value' = v
             /\ frame' = [frame EXCEPT !.value = v]
             /\ pc' = "returned"
        ELSE /\ frame' = [frame EXCEPT
                            !.value = v,
                            !.alpha = IF frame.maximising_player THEN Max(@, v) ELSE @,
                            !.beta = IF frame.maximising_player THEN @ ELSE Min(@, v),
                            !.k = @ + 1]
             /\ UNCHANGED <<value, pc>>
  /\ UNCHANGED <<snapshot, node, history, driverVars, hit, voronoiVars>>

\* The recursive call of the pass at hand, entered.
StepInto ==
  /\ pc = "loop"
  /\ frame.depth > 0
  /\ frame.k <= ChildCount
  /\ node' = Child(frame.k)
  /\ frame' = NewFrame(frame.depth - 1, frame.alpha, frame.beta,
                       ~ frame.maximising_player)
  /\ hit' = (hit \/ (frame.maximising_player /\ Enters(node, DirectionOrder[frame.k])))
  /\ UNCHANGED <<snapshot, pc, history, driverVars, voronoiVars, value>>

\* Lines 240 and 272: the loop has run out.
LoopEnd ==
  /\ pc = "loop"
  /\ frame.depth > 0
  /\ frame.k > ChildCount
  /\ value' = frame.value
  /\ pc' = "returned"
  /\ UNCHANGED <<snapshot, node, history, driverVars, searchVars, voronoiVars>>

NextSearch ==
  \/ \E d \in Direction : RootMove(d)
  \/ Leaf
  \/ StepOver
  \/ StepInto
  \/ LoopEnd

SpecSearch == InitSearch /\ [][NextSearch]_vars

\* C4 as stated: a leaf of the search reached by a path on which a move of
\* agent 0 entered an occupied cell is evaluated as a loss.
C4_CollisionLoses ==
  (pc = "returned" /\ frame.depth = 0 /\ hit)
    => value = -1000000000 + node.turn

\* ================================== SpecAB: alphabeta with the full window
\* alphabeta called with the window (i32::MIN, i32::MAX), at every depth up
\* to MaxDepth and for either ply, on the roots of a family of snapshots and
\* on the nodes the first two plies of the search make of them.
OnDiagonal(c) == c \in Inner /\ c.x = c.y

ABSnapshots ==
  {s \in Mirrored \cup SingleLong : OnDiagonal(s.snakes[1][1])}

InitAB ==
  /\ snapshot \in ABSnapshots
  /\ node = BuildRoot(snapshot).node
  /\ pc = "root"
  /\ Idle

\* The move of agent 0 that the root of get_move or a maximising ply makes.
OwnMove(d) ==
  /\ pc = "root"
  /\ node' = apply_move(node, 0, d)
  /\ pc' = "moved"
  /\ UNCHANGED <<snapshot, history, driverVars, searchVars, voronoiVars, value>>

\* The joint reply a minimising ply makes.
JointReply(directions) ==
  /\ pc = "moved"
  /\ node' = apply_move_array(node, directions)
  /\ pc' = "replied"
  /\ UNCHANGED <<snapshot, history, driverVars, searchVars, voronoiVars, value>>

\* The call alphabeta(node, depth, i32::MIN, i32::MAX, maximising_player).
Search(depth, maximising_player) ==
  /\ pc \in {"root", "moved", "replied"}
  /\ value' = alphabeta(node, depth, I32_MIN, I32_MAX, maximising_player)
  /\ frame' = NewFrame(depth, I32_MIN, I32_MAX, maximising_player)
  /\ pc' = "searched"
  /\ UNCHANGED <<snapshot, node, history, driverVars, hit, voronoiVars>>

NextAB ==
  \/ \E d \in Direction : OwnMove(d)
  \/ \E ds \in JointReplies : JointReply(ds)
  \/ \E depth \in 0 .. MaxDepth, m \in BOOLEAN : Search(depth, m)

SpecAB == InitAB /\ [][NextAB]_vars

\* The recursion of alphabeta with the two cut-offs removed: the same leaf
\* evaluation, the same children in the same order, the same initial running
\* values.
RECURSIVE minimax(_, _, _)
RECURSIVE MaxAll(_, _, _, _)
RECURSIVE MinAll(_, _, _, _, _)

MaxAll(n, depth, running, k) ==
  IF k > 4
  THEN running
  ELSE MaxAll(n, depth, Max(running, minimax(MaxChild(n, k), depth - 1, FALSE)),
              k + 1)

MinAll(n, depth, running, enemy_turns, k) ==
  IF k > Len(enemy_turns)
  THEN running
  ELSE MinAll(n, depth,
              Min(running, minimax(MinChild(n, enemy_turns, k), depth - 1, TRUE)),
              enemy_turns, k + 1)

minimax(n, depth, maximising_player) ==
  IF depth = 0
  THEN evaluate(n)
  ELSE IF maximising_player
       THEN MaxAll(n, depth, -10000, 1)
       ELSE MinAll(n, depth, 10000, EnemyTurns(PLAYER_COUNT - 1), 1)

\* C2: alphabeta with the full window returns the value of the recursion
\* without cut-offs.
C2_PruningKeepsValue ==
  pc = "searched" => value = minimax(node, frame.depth, frame.maximising_player)

\* A search of two plies from a maximising node in which the call for the
\* second direction is cut after its first joint reply: the value of that
\* reply is at most the alpha the first direction left.
C2_Witness ==
  /\ pc = "searched"
  /\ frame.depth = 2
  /\ frame.maximising_player
  /\ LET alpha1 == Max(-10000, alphabeta(MaxChild(node, 1), 1, I32_MIN, I32_MAX, FALSE))
         second == MaxChild(node, 2)
         reply1 == alphabeta(MinChild(second, EnemyTurns(PLAYER_COUNT - 1), 1), 0,
                             alpha1, I32_MAX, TRUE)
     IN /\ ~ BetaCut(alpha1, I32_MAX)
        /\ AlphaCut(Min(10000, reply1), alpha1)

\* The values alphabeta, called with the full window, returns for the
\* children of a node: its four moves at a maximising ply, its joint replies
\* at a minimising ply.
ChildValues(n, depth, maximising_player) ==
  IF maximising_player
  THEN {alphabeta(MaxChild(n, k), depth - 1, I32_MIN, I32_MAX, FALSE) :
          k \in 1 .. 4}
  ELSE {alphabeta(MinChild(n, EnemyTurns(PLAYER_COUNT - 1), k), depth - 1,
                  I32_MIN, I32_MAX, TRUE) :
          k \in 1 .. Len(EnemyTurns(PLAYER_COUNT - 1))}

Greatest(S) == CHOOSE m \in S : \A x \in S : x <= m
Least(S) == CHOOSE m \in S : \A x \in S : m <= x

\* C14 as stated: with the full window and depth >= 1, alphabeta returns the
\* maximum of the values of the children at a maximising ply and the minimum
\* at a minimising ply, also when every child is a terminal loss.
C14_ExactExtremum ==
  (pc = "searched" /\ frame.depth >= 1) =>
    value = IF frame.maximising_player
            THEN Greatest(ChildValues(node, frame.depth, TRUE))
            ELSE Least(ChildValues(node, frame.depth, FALSE))

\* ============================================ SpecEval: voronoi and evaluate
\* voronoi, one pass of its while loop per step, and evaluate, on the roots
\* of a family of snapshots and on the nodes the first two plies of the
\* search make of them.
EvalSnapshots == Mirrored \cup SingleLong \cup Starving

InitEval ==
  /\ snapshot \in EvalSnapshots
  /\ node = BuildRoot(snapshot).node
  /\ pc = "root"
  /\ Idle

\* Lines 168-178.
VoronoiBegin ==
  /\ pc \in {"root", "moved", "replied"}
  /\ vor' = VoronoiStart(node)
  /\ rounds' = 0
  /\ pc' = "voronoi"
  /\ UNCHANGED <<snapshot, node, history, driverVars, searchVars, value>>

\* Lines 180-207, once.
VoronoiPass ==
  /\ pc = "voronoi"
  /\ vor.not_done
  /\ vor' = VoronoiRound(node, vor.owned_by, vor.voronoi_scores)
  /\ rounds' = rounds + 1
  /\ UNCHANGED <<snapshot, pc, node, history, driverVars, searchVars, value>>

\* Line 209.
VoronoiReturn ==
  /\ pc = "voronoi"
  /\ ~ vor.not_done
  /\ value' = vor.voronoi_scores
  /\ pc' = "scored"
  /\ UNCHANGED <<snapshot, node, history, driverVars, searchVars, voronoiVars>>

\* Lines 133-139.
Evaluate ==
  /\ pc \in {"root", "moved", "replied"}
  /\ value' = evaluate(node)
  /\ pc' = "evaluated"
  /\ UNCHANGED <<snapshot, node, history, driverVars, searchVars, voronoiVars>>

NextEval ==
  \/ \E d \in Direction : OwnMove(d)
  \/ \E ds \in JointReplies : JointReply(ds)
  \/ VoronoiBegin
  \/ VoronoiPass
  \/ VoronoiReturn
  \/ Evaluate

SpecEval == InitEval /\ [][NextEval]_vars

\* A cell of the interior that is free in node n and is no head cell.
FreeCell(n, c) ==
  /\ c \in Interior
  /\ get_coord(n.board, c) <= n.turn
  /\ \A i \in Players : n.heads[i] # c

Adjacent(c, d) == \E k \in 1 .. 4 : Tests(c)[k] = d

\* The free cells a path of free cells joins to some head.
RECURSIVE ReachableFrom(_, _)
ReachableFrom(n, reached) ==
  LET more == {c \in Interior :
                 /\ FreeCell(n, c)
                 /\ \/ \E i \in Players : Adjacent(c, n.heads[i])
                    \/ \E d \in reached : Adjacent(c, d)}
  IN IF more = reached THEN reached ELSE ReachableFrom(n, more)

ReachableFree(n) == ReachableFrom(n, {})

\* C5 as stated: the scores voronoi returns add up to the number of free
\* cells reachable from some head.
C5_ScoresCountCells ==
  pc = "scored" => SumScores(value, 0) = Cardinality(ReachableFree(node))

\* C6 as stated: on the root of a snapshot with two heads, and nothing else,
\* at positions that mirror each other, voronoi returns equal scores.
C6_MirrorEqual ==
  (/\ pc = "scored"
   /\ snapshot \in Mirrored
   /\ node = BuildRoot(snapshot).node)
  => value[0] = value[1]

\* The controlled agent has lost in node n.
TerminalLoss(n) ==
  \/ is_head_colliding_wall(n, 0)
  \/ is_head_colliding_snake(n, 0)
  \/ n.our_health <= 2

\* Nodes that differ from n in the turn, the health and the head of agent 0.
Variants(n) ==
  {[n EXCEPT !.turn = t, !.our_health = h, !.heads[0] = c] :
     t \in 0 .. (MaxTurn + 3), h \in {n.our_health, 2}, c \in Interior}

\* C7: of two nodes in which the controlled agent has lost, evaluate gives
\* the one with the larger turn the strictly greater score.
C7_LaterLossScoresHigher ==
  (pc = "evaluated" /\ TerminalLoss(node)) =>
    \A other \in Variants(node) :
      TerminalLoss(other) =>
        /\ other.turn > node.turn => evaluate(other) > value
        /\ other.turn < node.turn => evaluate(other) < value

\* A node lost to a body collision, and a node of a later turn lost to the
\* wall.
C7_Witness ==
  /\ pc = "evaluated"
  /\ ~ is_head_colliding_wall(node, 0)
  /\ is_head_colliding_snake(node, 0)
  /\ node.our_health > 2
  /\ \E other \in Variants(node) :
       /\ is_head_colliding_wall(other, 0)
       /\ other.turn > node.turn
       /\ evaluate(other) > value

\* A step that is one pass of the while loop of voronoi.
PassStep == pc = "voronoi" /\ pc' = "voronoi" /\ rounds' = rounds + 1

Owned(owned_by, k) == owned_by[k] # MAGIC_NOT_OWNED

\* C18: a cell that has an owner keeps it in every later round, the loop goes
\* on exactly when the round gave some cell an owner, and the number of
\* rounds is at most the number of interior cells plus one.
C18_RoundsBounded ==
  [][PassStep =>
       /\ \A k \in 0 .. (DenseLen - 1) :
            Owned(vor.owned_by, k) => vor'.owned_by[k] = vor.owned_by[k]
       /\ vor'.not_done <=> (vor'.owned_by # vor.owned_by)
       /\ vor'.not_done
            => \E k \in InteriorIndex :
                 ~ Owned(vor.owned_by, k) /\ Owned(vor'.owned_by, k)
       /\ rounds' <= BOARD_SIZE * BOARD_SIZE + 1]_vars

\* The loop has ended after three rounds or more, the last of which claimed
\* nothing.
C18_Witness ==
  /\ pc = "voronoi"
  /\ ~ vor.not_done
  /\ rounds >= 3
  /\ rounds <= BOARD_SIZE * BOARD_SIZE + 1
  /\ \E k \in InteriorIndex :
       /\ Owned(vor.owned_by, k)
       /\ \A i \in Players : node.heads[i] # CoordOf(k)

\* The owners of the owned neighbours of a cell, in scan order.
NeighbourOwners(owned_by, c) ==
  LET owned == SelectSeq(Tests(c),
                         LAMBDA t : get_coord(owned_by, t) # MAGIC_NOT_OWNED)
  IN [j \in 1 .. Len(owned) |-> get_coord(owned_by, owned[j])]

\* The owned neighbours of a cell belong to two agents or more.
Contested(owned_by, c) ==
  \E j, l \in 1 .. Len(NeighbourOwners(owned_by, c)) :
    NeighbourOwners(owned_by, c)[j] # NeighbourOwners(owned_by, c)[l]

\* The interior cells a round gives an owner while neighbours of theirs
\* belong to different agents.
ContestedClaims ==
  {k \in InteriorIndex :
     /\ ~ Owned(vor.owned_by, k)
     /\ Owned(vor'.owned_by, k)
     /\ Contested(vor.owned_by, CoordOf(k))}

OwnedAreFree ==
  \A k \in 0 .. (DenseLen - 1) :
    (Owned(vor.owned_by, k) /\ node.board[k] > node.turn)
      => \E i \in Players : node.heads[i] = CoordOf(k)

\* The increments of the score of agent p that free cells without an owner
\* account for: one for each neighbour of such a cell that p owns.
FreeGain(p) ==
  Cardinality({kj \in InteriorIndex \X (1 .. 4) :
                 /\ node.board[kj[1]] <= node.turn
                 /\ ~ Owned(vor.owned_by, kj[1])
                 /\ get_coord(vor.owned_by, Tests(CoordOf(kj[1]))[kj[2]]) = p})

\* C20: in every round no occupied cell, wall ring included, is given an
\* owner, the seeded head cells being the only owned cells that may be
\* occupied, and the scores grow by what free cells account for and no more.
C20_TerritoryOnFreeCells ==
  [][/\ pc' = "voronoi" => OwnedAreFree'
     /\ PassStep => \A p \in Players :
                      vor'.voronoi_scores[p] = vor.voronoi_scores[p] + FreeGain(p)]_vars

\* The loop has ended and left without an owner a body segment next to an
\* owned cell.
C20_Witness ==
  /\ pc = "voronoi"
  /\ ~ vor.not_done
  /\ rounds >= 2
  /\ \E c \in Interior :
       /\ get_coord(node.board, c) > node.turn
       /\ \A i \in Players : node.heads[i] # c
       /\ get_coord(vor.owned_by, c) = MAGIC_NOT_OWNED
       /\ \E j \in 1 .. 4 : get_coord(vor.owned_by, Tests(c)[j]) # MAGIC_NOT_OWNED

====
